---- MODULE Spec2Model ----
(***************************************************************************)
(* Pomosidian (src/main.ts): a timer plugin that logs start/stop sessions  *)
(* into the front matter of the note the timer was started on.             *)
(*                                                                         *)
(* Text representation.  A text is a non-empty sequence of lines (the      *)
(* text split on "\n"; the empty text is the single empty line), a line is *)
(* a sequence of tokens, and a token is a record standing for a fixed      *)
(* piece of text:                                                          *)
(*   "---"                 three dashes                                    *)
(*   " "                   one whitespace character                        *)
(*   "time_spent: "        the duration key, colon and space               *)
(*   "pomosidian_log: |-"  the log key and its block-scalar marker         *)
(*   "entry"               "<stopwatch> S - E (D)", S and E timestamps     *)
(*                         printed to the second, D a formatted duration   *)
(*   "dur"                 a formatted duration D                          *)
(*   anything else         literal text that contains none of the above    *)
(* A formatted duration is a sequence of [n, u] pairs: "1h1m" is           *)
(* <<[n |-> 1, u |-> "h"], [n |-> 1, u |-> "m"]>>.                         *)
(* A JavaScript number of seconds is kept in thousandths (fixed point), so *)
(* that Math.floor and the division by 1000 are modelled.                  *)
(***************************************************************************)
EXTENDS Integers, Sequences, FiniteSets, TLC

\* ---------------------------------------------------------------- bounds
MaxNow == 1000
MaxSessions == 2
MaxSeconds == 7325

\* ------------------------------------------------------ program constants
MsPerSec == 1000
TickMs == 1000
SecPerHour == 3600
SecPerMin == 60

NULL == "null"
UnknownPage == "Unknown page"

\* ---------------------------------------------------------------- tokens
Tok(k) == [k |-> k, a |-> 0, b |-> 0, d |-> <<>>]
DASH == Tok("---")
WS == Tok(" ")
TSKEY == Tok("time_spent: ")
LOGKEY == Tok("pomosidian_log: |-")
DurTok(d) == [k |-> "dur", a |-> 0, b |-> 0, d |-> d]
EntryTok(s, e, d) == [k |-> "entry", a |-> s, b |-> e, d |-> d]

EmptyText == << <<>> >>

\* String.prototype.trim on a text: leading and trailing whitespace
\* characters and line breaks are removed.
RECURSIVE TrimStart(_)
TrimStart(t) ==
    IF Head(t) = <<>>
    THEN IF Len(t) = 1 THEN t ELSE TrimStart(Tail(t))
    ELSE IF Head(Head(t)) = WS
         THEN TrimStart(<<Tail(Head(t))>> \o Tail(t))
         ELSE t

RECURSIVE TrimEnd(_)
TrimEnd(t) ==
    LET n == Len(t)
        l == t[n]
    IN IF l = <<>>
       THEN IF n = 1 THEN t ELSE TrimEnd(SubSeq(t, 1, n - 1))
       ELSE IF l[Len(l)] = WS
            THEN TrimEnd(SubSeq(t, 1, n - 1) \o <<SubSeq(l, 1, Len(l) - 1)>>)
            ELSE t

Trim(t) == TrimEnd(TrimStart(t))

\* ---------------------------------------------------------- formatTime
\* src/main.ts formatTime: seconds is floored first, then split.
formatTimeNoFloorMinutes(seconds) ==
    LET s == seconds \div MsPerSec
        hours == s \div SecPerHour
        minutes == s \div SecPerMin
        remainingSeconds == s % SecPerMin
    IN IF hours > 0 /\ minutes > 0
       THEN <<[n |-> hours, u |-> "h"], [n |-> minutes, u |-> "m"]>>
       ELSE IF hours > 0
       THEN <<[n |-> hours, u |-> "h"]>>
       ELSE IF minutes > 0 /\ remainingSeconds > 0
       THEN <<[n |-> minutes, u |-> "m"], [n |-> remainingSeconds, u |-> "s"]>>
       ELSE IF minutes > 0
       THEN <<[n |-> minutes, u |-> "m"]>>
       ELSE <<[n |-> remainingSeconds, u |-> "s"]>>

formatTime(seconds) ==
    LET s == seconds \div MsPerSec
        hours == s \div SecPerHour
        minutes == (s % SecPerHour) \div SecPerMin
        remainingSeconds == s % SecPerMin
    IN IF hours > 0 /\ minutes > 0
       THEN <<[n |-> hours, u |-> "h"], [n |-> minutes, u |-> "m"]>>
       ELSE IF hours > 0
       THEN <<[n |-> hours, u |-> "h"]>>
       ELSE IF minutes > 0 /\ remainingSeconds > 0
       THEN <<[n |-> minutes, u |-> "m"], [n |-> remainingSeconds, u |-> "s"]>>
       ELSE IF minutes > 0
       THEN <<[n |-> minutes, u |-> "m"]>>
       ELSE <<[n |-> remainingSeconds, u |-> "s"]>>

\* ------------------------------------------------------- logTimeSpent
\* formatDateTime prints a Date to the second; new Date(text) reads it back.
formatDateTime(date) == date \div MsPerSec
parseDateTime(stamp) == stamp * MsPerSec

\* Math.floor((endTime - startTime) / 1000), as a number of seconds
durationSeconds(startTime, endTime) ==
    ((endTime - startTime) \div MsPerSec) * MsPerSec

logEntry(startTime, endTime) ==
    <<WS, EntryTok(formatDateTime(startTime), formatDateTime(endTime),
                   formatTime(durationSeconds(startTime, endTime)))>>

IsEntry(tok) == tok.k = "entry"
HasTok(line, tok) == \E p \in 1..Len(line) : line[p] = tok
FirstPos(line, tok) ==
    CHOOSE p \in 1..Len(line) :
        line[p] = tok /\ \A q \in 1..(p - 1) : line[q] # tok

\* calculateTotalTime: entries whose two timestamps match contribute
\* (end - start) / 1000; the others contribute nothing.
RECURSIVE calculateTotalTime(_)
calculateTotalTime(logEntries) ==
    IF logEntries = <<>> THEN 0
    ELSE LET entry == Head(logEntries)
             hit == {p \in 1..Len(entry) : IsEntry(entry[p])}
             p0 == CHOOSE p \in hit : \A q \in hit : p <= q
             duration == IF hit = {} THEN 0
                         ELSE parseDateTime(entry[p0].b) - parseDateTime(entry[p0].a)
         IN duration + calculateTotalTime(Tail(logEntries))

\* frontMatterRegex /^---\n([\s\S]*?)\n---/m: with the m flag ^ matches at
\* the start of any line, so the opening line is the first line that is
\* exactly "---" and is followed, at least two lines later, by a line that
\* starts with "---"; the lazy group ends at the first such line.
IsOpen(content, i) ==
    /\ content[i] = <<DASH>>
    /\ \E j \in (i + 2)..Len(content) : content[j] # <<>> /\ Head(content[j]) = DASH
hasFrontMatter(content) == \E i \in 1..Len(content) : IsOpen(content, i)
fmOpen(content) ==
    CHOOSE i \in 1..Len(content) :
        IsOpen(content, i) /\ \A h \in 1..(i - 1) : ~IsOpen(content, h)
fmClose(content) ==
    LET i == fmOpen(content)
        ends == {j \in (i + 2)..Len(content) :
                    content[j] # <<>> /\ Head(content[j]) = DASH}
    IN CHOOSE j \in ends : \A h \in ends : j <= h
existingFrontMatter(content) ==
    SubSeq(content, fmOpen(content) + 1, fmClose(content) - 1)

\* timeSpentRegex /time_spent: .*/m: the first occurrence of the key text,
\* anywhere in a line, up to the end of that line.
timeSpentTest(fm) == \E l \in 1..Len(fm) : HasTok(fm[l], TSKEY)
timeSpentReplace(fm, total) ==
    LET l == CHOOSE x \in 1..Len(fm) :
                 HasTok(fm[x], TSKEY) /\ \A h \in 1..(x - 1) : ~HasTok(fm[h], TSKEY)
        p == FirstPos(fm[l], TSKEY)
    IN [fm EXCEPT ![l] = SubSeq(fm[l], 1, p - 1) \o <<TSKEY, DurTok(total)>>]

\* logBlockRegex /pomosidian_log: \|-\n([\s\S]*)/m: the first line that ends
\* with the key text and is followed by a line break; $1 is all that follows.
IsLogKey(fm, l) == l < Len(fm) /\ fm[l] # <<>> /\ fm[l][Len(fm[l])] = LOGKEY
logBlockTest(fm) == \E l \in 1..Len(fm) : IsLogKey(fm, l)
logBlockReplace(fm, entry) ==
    LET l == CHOOSE x \in 1..Len(fm) :
                 IsLogKey(fm, x) /\ \A h \in 1..(x - 1) : ~IsLogKey(fm, h)
    IN SubSeq(fm, 1, l) \o <<entry>> \o SubSeq(fm, l + 1, Len(fm))

\* The total written to time_spent when the block exists (lines 137-138):
\* calculateTotalTime is given the new entry alone.
totalTimeSpent(startTime, endTime) ==
    formatTime(calculateTotalTime(<<logEntry(startTime, endTime)>>))

updatedFrontMatter(fm, startTime, endTime) ==
    LET total == totalTimeSpent(startTime, endTime)
        entry == logEntry(startTime, endTime)
        withTime == IF timeSpentTest(fm)
                    THEN timeSpentReplace(fm, total)
                    ELSE fm \o << <<TSKEY, DurTok(total)>> >>
    IN IF logBlockTest(fm)
       THEN IF logBlockTest(withTime) THEN logBlockReplace(withTime, entry)
            ELSE withTime
       ELSE withTime \o << <<LOGKEY>>, entry >>

\* The content logTimeSpent hands to vault.modify (lines 124-160).
newContent(content, startTime, endTime) ==
    IF hasFrontMatter(content)
    THEN LET i == fmOpen(content)
             j == fmClose(content)
             fm == updatedFrontMatter(existingFrontMatter(content), startTime, endTime)
         IN SubSeq(content, 1, i - 1) \o << <<DASH>> >> \o Trim(fm)
            \o << <<DASH>> \o Tail(content[j]) >>
            \o SubSeq(content, j + 1, Len(content))
    ELSE << <<DASH>>,
            <<TSKEY, DurTok(formatTime(durationSeconds(startTime, endTime)))>>,
            <<LOGKEY>>,
            logEntry(startTime, endTime),
            <<DASH>>,
            <<>> >> \o Trim(content)

\* ------------------------------------------------------------ the vault
\* Two notes in two folders, in getFiles() order.  The second can be renamed
\* to the first one's name (basenames are unique only within a folder).
Files == {"f1", "f2"}
FileOrder == <<"f1", "f2">>
InitBasename == [f \in Files |-> IF f = "f1" THEN "todo" ELSE "note"]
Renamable == {"f2"}
NewName == "todo"
Steps == {500, 1000}

BODY == Tok("body")
FOO == Tok("foo: bar")
\* The notes the timer claims are checked on: one without and one with a block.
TimerDocs ==
    { << <<BODY>> >>,
      << <<DASH>>, <<FOO>>, <<DASH>>, <<BODY>> >> }
\* The notes the document claims are checked on.
InitDocs ==
    { << <<BODY>> >>,
      << <<>>, <<WS, BODY>>, <<BODY, WS>>, <<>> >>,
      << <<DASH>>, <<FOO>>, <<DASH>>, <<BODY>> >>,
      << <<DASH>>, <<Tok("total_"), TSKEY, Tok("2h")>>, <<DASH>>, <<BODY>> >>,
      << <<BODY>>, <<DASH>>, <<FOO>>, <<DASH>>, <<BODY>> >>,
      << <<DASH>>, <<DASH>>, <<BODY>> >>,
      << <<DASH>>, <<FOO, WS>>, <<LOGKEY>>, <<DASH>>, <<BODY>> >> }

VARIABLES
    loaded,          \* the plugin is loaded (onload done, onunload not yet)
    timer,           \* this.timer: 0 is null, else the interval's id
    startTime,       \* this.startTime: -1 is null, else milliseconds
    totalTime,       \* this.totalTime, seconds in thousandths
    timerFileName,   \* this.timerFileName
    statusBarItemEl, \* the text of the status bar item
    notices,         \* the notices shown by the last command
    intervals,       \* the ids of the intervals setInterval has running
    now,             \* the clock, milliseconds
    activeFile,      \* workspace.getActiveFile(): a file or NULL
    basename,        \* each file's basename
    content,         \* each file's text
    tasks,           \* stopTimer calls awaiting vault.read or vault.modify
    doc0,            \* history: the text every file started with
    origin,          \* history: the file that was active at the last start
    origins,         \* history: every file that was active at some start
    starts,          \* history: number of idle-to-running transitions
    stops,           \* history: number of running-to-idle transitions
    writes,          \* history: number of vault.modify calls completed
    misses,          \* history: number of stops whose file was not found
    fmtIn,           \* formatTime check: the argument, whole seconds
    fmtOut           \* formatTime check: the result, <<>> before the call

plugin == <<loaded, timer, startTime, totalTime, timerFileName, statusBarItemEl,
            notices, intervals>>
host == <<now, activeFile, basename, content, tasks>>
hist == <<doc0, origin, origins, starts, stops, writes, misses>>
fmt == <<fmtIn, fmtOut>>
vars == <<plugin, host, hist, fmt>>

Notice(msg, name, time) == [msg |-> msg, name |-> name, time |-> time]
IdleText == [icon |-> "clock", elapsed |-> <<>>, name |-> NULL]
RunningText(elapsed, name) == [icon |-> "pause", elapsed |-> elapsed, name |-> name]

InitMain(docs) ==
    /\ loaded = TRUE
    /\ timer = 0
    /\ startTime = -1
    /\ totalTime = 0
    /\ timerFileName = NULL
    /\ statusBarItemEl = IdleText
    /\ notices = <<>>
    /\ intervals = {}
    /\ now = 0
    /\ activeFile \in Files \cup {NULL}
    /\ basename = InitBasename
    /\ doc0 \in docs
    /\ content = [f \in Files |-> doc0]
    /\ tasks = <<>>
    /\ origin = NULL
    /\ origins = {}
    /\ starts = 0
    /\ stops = 0
    /\ writes = 0
    /\ misses = 0

Init == InitMain(TimerDocs) /\ fmtIn = 0 /\ fmtOut = <<>>
InitAllDocs == InitMain(InitDocs) /\ fmtIn = 0 /\ fmtOut = <<>>
InitFormat ==
    /\ InitMain({<< <<BODY>> >>})
    /\ fmtIn \in 0..MaxSeconds
    /\ fmtOut = <<>>

\* allFiles.find(file => file.basename === this.timerFileName)
Matches(name) == {k \in 1..Len(FileOrder) : basename[FileOrder[k]] = name}
targetFileActive(name) == activeFile
targetFile(name) ==
    IF Matches(name) = {} THEN NULL
    ELSE FileOrder[CHOOSE k \in Matches(name) : \A h \in Matches(name) : k <= h]

\* startTimer while running (lines 59-62)
startRefused ==
    /\ notices' = <<Notice("Timer is already running.", NULL, <<>>)>>
    /\ UNCHANGED <<loaded, timer, startTime, totalTime, timerFileName,
                   statusBarItemEl, intervals, host, hist>>

\* startTimer while idle (lines 64-74)
startIdle ==
    /\ starts < MaxSessions
    /\ startTime' = now
    /\ timerFileName' = IF activeFile = NULL THEN UnknownPage
                        ELSE basename[activeFile]
    /\ timer' = starts + 1
    /\ intervals' = intervals \cup {starts + 1}
    /\ notices' = <<Notice("Timer started for", timerFileName', <<>>)>>
    /\ origin' = activeFile
    /\ origins' = origins \cup {activeFile}
    /\ starts' = starts + 1
    /\ UNCHANGED <<loaded, totalTime, statusBarItemEl, host, doc0, stops,
                   writes, misses>>

\* startTimer (lines 58-75)
startTimerNoGuard == startIdle
startTimer == IF timer # 0 THEN startRefused ELSE startIdle

\* stopTimer while idle (lines 78-81)
stopRefused ==
    /\ notices' = <<Notice("No timer is running.", NULL, <<>>)>>
    /\ UNCHANGED <<loaded, timer, startTime, totalTime, timerFileName,
                   statusBarItemEl, intervals, host, hist>>

\* stopTimer while running, up to its first suspension (lines 83-92, 110-121,
\* 164-166).  When no file matches, logTimeSpent awaits nothing and the rest
\* of stopTimer (lines 93-95) runs in the same turn of the event loop.
stopRunning ==
    LET endTime == now
        timeSpent == endTime - startTime
        fileName == timerFileName
        target == targetFile(timerFileName)
        stopped == Notice("Timer stopped for", fileName, formatTime(timeSpent))
    IN /\ intervals' = intervals \ {timer}
       /\ timer' = 0
       /\ totalTime' = totalTime + timeSpent
       /\ stops' = stops + 1
       /\ IF target # NULL
          THEN /\ tasks' = Append(tasks,
                     [pc |-> "read", file |-> target, startTime |-> startTime,
                      endTime |-> endTime, content |-> EmptyText,
                      fileName |-> fileName, timeSpent |-> timeSpent,
                      origin |-> origin])
               /\ notices' = <<>>
               /\ UNCHANGED <<statusBarItemEl, misses>>
          ELSE /\ notices' = <<Notice("Could not find the file where the timer started",
                                      timerFileName, <<>>), stopped>>
               /\ statusBarItemEl' = IdleText
               /\ misses' = misses + 1
               /\ UNCHANGED tasks
       /\ UNCHANGED <<loaded, startTime, timerFileName, now, activeFile,
                      basename, content, doc0, origin, origins, starts, writes>>

\* stopTimer (lines 77-96)
stopTimerNoGuard == stopRunning
stopTimer == IF timer = 0 THEN stopRefused ELSE stopRunning

\* toggleTimer (lines 50-56)
toggleTimerInverted == IF timer # 0 THEN startTimer ELSE stopTimer
toggleTimer == IF timer # 0 THEN stopTimer ELSE startTimer

StartTimer == loaded /\ startTimer /\ UNCHANGED fmt
StopTimer == loaded /\ stopTimer /\ UNCHANGED fmt
ToggleTimer == loaded /\ toggleTimer /\ UNCHANGED fmt

Without(seq, i) == SubSeq(seq, 1, i - 1) \o SubSeq(seq, i + 1, Len(seq))

\* vault.read resolves (line 121); lines 123-160 compute the new content and
\* vault.modify is called (line 163).
ReadDone(i) ==
    /\ tasks[i].pc = "read"
    /\ tasks' = [tasks EXCEPT ![i].pc = "write",
                              ![i].content = newContent(content[tasks[i].file],
                                                        tasks[i].startTime,
                                                        tasks[i].endTime)]
    /\ UNCHANGED <<plugin, now, activeFile, basename, content, hist, fmt>>

\* vault.modify resolves (line 163) and stopTimer finishes (lines 93-95).
ModifyDone(i) ==
    /\ tasks[i].pc = "write"
    /\ content' = [content EXCEPT ![tasks[i].file] = tasks[i].content]
    /\ tasks' = Without(tasks, i)
    /\ writes' = writes + 1
    /\ statusBarItemEl' = IdleText
    /\ notices' = <<Notice("Timer stopped for", tasks[i].fileName,
                           formatTime(tasks[i].timeSpent))>>
    /\ UNCHANGED <<loaded, timer, startTime, totalTime, timerFileName, intervals,
                   now, activeFile, basename, doc0, origin, origins, starts,
                   stops, misses, fmt>>

\* the setInterval callback (lines 68-72)
IntervalTick ==
    /\ intervals # {}
    /\ now - startTime >= TickMs
    /\ LET elapsedTime == formatTime(now - startTime)
       IN statusBarItemEl' = RunningText(elapsedTime, timerFileName)
    /\ UNCHANGED <<loaded, timer, startTime, totalTime, timerFileName, notices,
                   intervals, host, hist, fmt>>

\* onunload (lines 230-234)
UnloadNoClear ==
    /\ loaded
    /\ loaded' = FALSE
    /\ UNCHANGED <<timer, startTime, totalTime, timerFileName, statusBarItemEl,
                   notices, intervals, host, hist, fmt>>
Unload ==
    /\ loaded
    /\ loaded' = FALSE
    /\ intervals' = IF timer # 0 THEN intervals \ {timer} ELSE intervals
    /\ UNCHANGED <<timer, startTime, totalTime, timerFileName, statusBarItemEl,
                   notices, host, hist, fmt>>

\* ------------------------------------------------------- the environment
Advance(d) ==
    /\ loaded
    /\ now + d <= MaxNow
    /\ now' = now + d
    /\ UNCHANGED <<plugin, activeFile, basename, content, tasks, hist, fmt>>

OpenFile(f) ==
    /\ loaded
    /\ f # activeFile
    /\ activeFile' = f
    /\ UNCHANGED <<plugin, now, basename, content, tasks, hist, fmt>>

RenameFile(f) ==
    /\ loaded
    /\ f \in Renamable
    /\ basename[f] # NewName
    /\ basename' = [basename EXCEPT ![f] = NewName]
    /\ UNCHANGED <<plugin, now, activeFile, content, tasks, hist, fmt>>

\* formatTime applied to a whole number of seconds
FormatStep ==
    /\ fmtOut = <<>>
    /\ fmtOut' = formatTime(fmtIn * MsPerSec)
    /\ UNCHANGED <<fmtIn, plugin, host, hist>>

Next ==
    \/ StartTimer
    \/ StopTimer
    \/ ToggleTimer
    \/ \E i \in 1..Len(tasks) : ReadDone(i)
    \/ \E i \in 1..Len(tasks) : ModifyDone(i)
    \/ IntervalTick
    \/ \E d \in Steps : Advance(d)
    \/ \E f \in Files \cup {NULL} : OpenFile(f)
    \/ \E f \in Files : RenameFile(f)

NextUnload == Next \/ Unload
\* the ribbon icon alone: toggle is the only command used
NextToggle ==
    \/ ToggleTimer
    \/ \E i \in 1..Len(tasks) : ReadDone(i)
    \/ \E i \in 1..Len(tasks) : ModifyDone(i)
    \/ IntervalTick
    \/ \E d \in Steps : Advance(d)
    \/ \E f \in Files \cup {NULL} : OpenFile(f)
    \/ \E f \in Files : RenameFile(f)
NextFormat == FormatStep

\* timer claims, on TimerDocs
Spec == Init /\ [][Next]_vars
\* document claims, on InitDocs
SpecDocs == InitAllDocs /\ [][Next]_vars
\* the plugin's whole life, unload included
SpecUnload == Init /\ [][NextUnload]_vars
\* toggle claims: every start and stop is made by a toggle
SpecToggle == Init /\ [][NextToggle]_vars
\* formatTime on 0..MaxSeconds
SpecFormat == InitFormat /\ [][NextFormat]_vars

\* ------------------------------------------------------------- helpers
AllEntries(text) == {l \in 1..Len(text) : \E p \in 1..Len(text[l]) : IsEntry(text[l][p])}
HasEntries(text) == AllEntries(text) # {}
NoMatch == \A f \in Files : basename[f] # timerFileName
HeadBlock(doc) == doc[1] = <<DASH>>

\* seconds a formatted duration stands for, in thousandths
RECURSIVE DurSeconds(_)
DurSeconds(d) ==
    IF d = <<>> THEN 0
    ELSE LET unit == IF Head(d).u = "h" THEN SecPerHour
                     ELSE IF Head(d).u = "m" THEN SecPerMin ELSE 1
         IN Head(d).n * unit * MsPerSec + DurSeconds(Tail(d))
RECURSIVE SumWritten(_)
SumWritten(text) ==
    IF text = <<>> THEN 0
    ELSE LET line == Head(text)
             hit == {p \in 1..Len(line) : IsEntry(line[p])}
         IN (IF hit = {} THEN 0 ELSE DurSeconds(line[CHOOSE p \in hit : TRUE].d))
            + SumWritten(Tail(text))
\* the value written after the first "time_spent: " of a line
TimeSpentValue(line) == SubSeq(line, FirstPos(line, TSKEY) + 1, Len(line))
TimeSpentLines(text) == {l \in 1..Len(text) : HasTok(text[l], TSKEY)}

\* ------------------------------------------------------------- C1
\* C1 (as claimed): in every note that holds log entries, the time_spent
\* field is the formatted sum of the durations of all the entries of
\* pomosidian_log (derived from their timestamps, or from the durations they
\* print).
C1_TotalInvariant ==
    \A f \in Files :
        HasEntries(content[f]) =>
            \E l \in TimeSpentLines(content[f]) :
                \/ TimeSpentValue(content[f][l])
                       = <<DurTok(formatTime(calculateTotalTime(content[f])))>>
                \/ TimeSpentValue(content[f][l])
                       = <<DurTok(formatTime(SumWritten(content[f])))>>

\* ------------------------------------------------------------- C2
\* C2 (as claimed): every stop reads and writes the file that was active when
\* its timer was started, and only files that were active at a start are
\* ever modified.
C2_LabelCapture ==
    /\ \A i \in 1..Len(tasks) : tasks[i].file = tasks[i].origin
    /\ \A f \in Files : content[f] # doc0 => f \in origins

\* ------------------------------------------------------------- C3
\* C3 (as claimed): in a note that starts with a metadata block, every line
\* of the original note that is not a time_spent or pomosidian_log line is
\* still a line of the note, verbatim, after any number of sessions.
OwnedLine(line) == line # <<>> /\ (Head(line) = TSKEY \/ Head(line) = LOGKEY)
C3_FieldPreservation ==
    \A f \in Files :
        HeadBlock(doc0) =>
            \A l \in 1..Len(doc0) :
                ~OwnedLine(doc0[l]) =>
                    \E m \in 1..Len(content[f]) : content[f][m] = doc0[l]

\* ------------------------------------------------------------- C4
NoTimerNotice == <<Notice("No timer is running.", NULL, <<>>)>>
\* C4: a stop called while the timer is idle (a second stop after one start,
\* also while the first stop still awaits its read or write) only shows "No
\* timer is running." and changes neither the timer nor any document nor the
\* pending writes; every running-to-idle transition has exactly one write,
\* done or pending, or one file-not-found report, and there are never more
\* transitions than starts.
C4_StopGuard ==
    /\ [](stops <= starts /\ stops = writes + Len(tasks) + misses)
    /\ [][(timer = 0 /\ StopTimer) =>
            /\ notices' = NoTimerNotice
            /\ UNCHANGED <<timer, startTime, totalTime, timerFileName, intervals,
                           content, tasks, stops, writes, misses>>]_vars
\* a second stop arrived while the first stop's write was still pending
C4_Witness ==
    /\ notices = NoTimerNotice
    /\ timer = 0 /\ starts = 1 /\ stops = 1
    /\ Len(tasks) = 1 /\ writes = 0

\* ------------------------------------------------------------- C5
AlreadyRunningNotice == <<Notice("Timer is already running.", NULL, <<>>)>>
\* C5: a start called while the timer is running only shows "Timer is
\* already running.": timer, start timestamp and captured label keep their
\* values, no interval is created (there is never more than one), and no
\* document or pending write changes.
C5_StartGuard ==
    /\ [](Cardinality(intervals) <= 1)
    /\ [][(timer # 0 /\ StartTimer) =>
            /\ notices' = AlreadyRunningNotice
            /\ UNCHANGED <<timer, startTime, timerFileName, intervals, totalTime,
                           content, tasks, starts, stops, writes>>]_vars
\* a start was refused one second into a running session
C5_Witness ==
    /\ notices = AlreadyRunningNotice
    /\ timer # 0 /\ starts = 1 /\ now - startTime >= TickMs

\* ------------------------------------------------------------- C6
\* C6 (as claimed): once a note that did not start with a block holds one
\* entry, it is a block (---, one time_spent line, the pomosidian_log key, one
\* entry line, ---) followed by the original text unchanged (a blank
\* separator line is allowed for).
C6_BlockCreation ==
    \A f \in Files :
        (~HeadBlock(doc0) /\ Cardinality(AllEntries(content[f])) = 1) =>
            LET c == content[f]
                rest == SubSeq(c, 6, Len(c))
            IN /\ Len(c) > 5
               /\ c[1] = <<DASH>>
               /\ Len(c[2]) = 2 /\ c[2][1] = TSKEY /\ c[2][2].k = "dur"
               /\ c[3] = <<LOGKEY>>
               /\ Len(c[4]) = 2 /\ c[4][1] = WS /\ IsEntry(c[4][2])
               /\ c[5] = <<DASH>>
               /\ (rest = doc0 \/ rest = << <<>> >> \o doc0)

\* ------------------------------------------------------------- C7
\* C7: a stop of a running timer whose label matches no file of the vault
\* changes no document and starts no read or write, shows the notice that the
\* file could not be found, and leaves the timer idle.
C7_NotFoundNoWrite ==
    [][(timer # 0 /\ NoMatch /\ (StopTimer \/ ToggleTimer)) =>
          /\ content' = content
          /\ tasks' = tasks
          /\ writes' = writes
          /\ timer' = 0
          /\ intervals' = {}
          /\ Len(notices') > 0
          /\ notices'[1] = Notice("Could not find the file where the timer started",
                                  timerFileName, <<>>)]_vars
\* the note the timer was started on was renamed before the stop
C7_Witness ==
    /\ misses = 1 /\ timer = 0 /\ tasks = <<>> /\ writes = 0
    /\ origin = "f2" /\ timerFileName = "note" /\ basename["f2"] = NewName
    /\ Len(notices) = 2
    /\ notices[1].msg = "Could not find the file where the timer started"

\* ------------------------------------------------------------- C8
\* C8 (as claimed): a stop whose label matches no file leaves totalTime as
\* it was.
C8_NotFoundTotal ==
    [][(timer # 0 /\ NoMatch /\ (StopTimer \/ ToggleTimer)) =>
          totalTime' = totalTime]_vars

\* ------------------------------------------------------------- C9
Expected(s) ==
    LET h == s \div 3600
        m == (s % 3600) \div 60
        r == s % 60
    IN CASE h > 0 /\ m > 0 -> <<[n |-> h, u |-> "h"], [n |-> m, u |-> "m"]>>
         [] h > 0 /\ m = 0 -> <<[n |-> h, u |-> "h"]>>
         [] h = 0 /\ m > 0 /\ r > 0 -> <<[n |-> m, u |-> "m"], [n |-> r, u |-> "s"]>>
         [] h = 0 /\ m > 0 /\ r = 0 -> <<[n |-> m, u |-> "m"]>>
         [] OTHER -> <<[n |-> r, u |-> "s"]>>
\* C9: formatTime(s) is "{h}h{m}m", "{h}h", "{m}m{r}s", "{m}m" or "{r}s" by
\* the claim's cases, for every s in 0..MaxSeconds; 0 is "0s", 59 "59s",
\* 60 "1m", 3600 "1h", 3661 "1h1m".
C9_Format ==
    fmtOut # <<>> =>
        /\ fmtOut = Expected(fmtIn)
        /\ fmtIn = 0 => fmtOut = <<[n |-> 0, u |-> "s"]>>
        /\ fmtIn = 59 => fmtOut = <<[n |-> 59, u |-> "s"]>>
        /\ fmtIn = 60 => fmtOut = <<[n |-> 1, u |-> "m"]>>
        /\ fmtIn = 3600 => fmtOut = <<[n |-> 1, u |-> "h"]>>
        /\ fmtIn = 3661 => fmtOut = <<[n |-> 1, u |-> "h"], [n |-> 1, u |-> "m"]>>
C9_Witness == fmtIn = 3661 /\ fmtOut = <<[n |-> 1, u |-> "h"], [n |-> 1, u |-> "m"]>>

\* ------------------------------------------------------------- C10
\* C10 (as claimed): when the text read does not start with a --- line, the
\* text written starts with a newly created block: ---, the time_spent line,
\* the pomosidian_log key.
C10_BlockDetection ==
    [][\A i \in 1..Len(tasks) :
          (ReadDone(i) /\ ~HeadBlock(content[tasks[i].file])) =>
              LET c == tasks'[i].content
              IN /\ c[1] = <<DASH>>
                 /\ c[2] # <<>> /\ c[2][1] = TSKEY
                 /\ c[3] = <<LOGKEY>>]_vars

\* ------------------------------------------------------------- C11
\* C11: there is never more than one interval, an interval exists only while
\* the timer is running and the plugin is loaded (stop and unload clear it),
\* and the tick callback writes the indicator only in such a state.
C11_TickCancellation ==
    /\ [](/\ Cardinality(intervals) <= 1
          /\ intervals # {} => (timer # 0 /\ loaded))
    /\ [][IntervalTick => (timer # 0 /\ loaded)]_vars
    /\ [][(statusBarItemEl' # statusBarItemEl /\ statusBarItemEl'.icon = "pause")
            => (timer # 0 /\ loaded)]_vars
\* the plugin was unloaded while the timer ran, after a tick had fired
C11_Witness ==
    /\ ~loaded /\ timer # 0 /\ intervals = {}
    /\ statusBarItemEl.icon = "pause"

\* ------------------------------------------------------------- C12
\* C12 (as claimed): whenever no stop is awaiting its read or write, the
\* indicator shows the idle icon if and only if the timer is idle.
C12_Indicator ==
    tasks = <<>> => (statusBarItemEl.icon = "clock" <=> timer = 0)
\* C12, the case the claim names: while one timer runs, an indicator that
\* shows the running text is not set back to the idle icon.
C12_NoStaleReset ==
    [][(timer # 0 /\ timer' = timer /\ statusBarItemEl.icon = "pause")
          => statusBarItemEl'.icon = "pause"]_vars

\* ------------------------------------------------------------- C13
\* C13: a toggle of an idle timer has the effect of a start (timestamp and
\* label captured, one interval, the started notice, no document touched) and
\* a toggle of a running timer the effect of a stop (interval cleared, total
\* increased, one read begun or one not-found report); so with k the number
\* of transitions made, the timer runs iff k is odd and floor(k/2) stops were
\* made.  Under SpecToggle k is the number of toggles.
C13_Toggle ==
    /\ [](LET k == starts + stops
          IN /\ timer # 0 <=> k % 2 = 1
             /\ stops = k \div 2)
    /\ [][(ToggleTimer /\ timer = 0) =>
            /\ timer' # 0 /\ intervals' = {timer'}
            /\ startTime' = now
            /\ timerFileName' = (IF activeFile = NULL THEN UnknownPage
                                 ELSE basename[activeFile])
            /\ notices' = <<Notice("Timer started for", timerFileName', <<>>)>>
            /\ starts' = starts + 1 /\ stops' = stops
            /\ UNCHANGED <<totalTime, statusBarItemEl, content, tasks, writes, misses>>]_vars
    /\ [][(ToggleTimer /\ timer # 0) =>
            /\ timer' = 0 /\ intervals' = {}
            /\ totalTime' = totalTime + (now - startTime)
            /\ stops' = stops + 1 /\ starts' = starts
            /\ UNCHANGED <<startTime, timerFileName, content, writes>>
            /\ IF NoMatch
               THEN tasks' = tasks /\ misses' = misses + 1
               ELSE /\ misses' = misses
                    /\ tasks' = Append(tasks, tasks'[Len(tasks')])
                    /\ tasks'[Len(tasks')].pc = "read"
                    /\ tasks'[Len(tasks')].startTime = startTime
                    /\ tasks'[Len(tasks')].endTime = now]_vars
\* three toggles made, the second one's write done and the timer running again
C13_Witness ==
    starts = 2 /\ stops = 1 /\ writes = 1 /\ timer # 0 /\ tasks = <<>>

\* ------------------------------------------------------------- C14
\* C14 (as claimed): when every session was started on one and the same
\* existing note, which kept its name, and no read or write is pending, the
\* note holds one entry line per stopped session on top of those it began
\* with, however the stops, reads and writes were interleaved.
C14_NoLostSession ==
    \A f \in Files :
        (/\ tasks = <<>> /\ misses = 0
         /\ origins = {f} /\ basename = InitBasename) =>
            Cardinality(AllEntries(content[f]))
                = Cardinality(AllEntries(doc0)) + stops

\* ------------------------------------------------------------- C15
\* the line closing the block a text starts with, 0 if there is none
BlockClose(text) ==
    LET ends == {l \in 2..Len(text) : text[l] = <<DASH>>}
    IN IF text[1] = <<DASH>> /\ ends # {}
       THEN CHOOSE l \in ends : \A m \in ends : l <= m
       ELSE 0
\* the lines of the head block whose key is tok
FieldLines(text, tok) ==
    {l \in 2..(BlockClose(text) - 1) : text[l] # <<>> /\ Head(text[l]) = tok}
\* the first non-blank line after the head block opens another block
SecondBlock(text) ==
    LET rest == {l \in (BlockClose(text) + 1)..Len(text) : text[l] # <<>>}
    IN rest # {} /\ text[CHOOSE l \in rest : \A m \in rest : l <= m] = <<DASH>>
\* C15 (as claimed): whatever text a note began with, once it holds an entry
\* it starts with exactly one metadata block, and that block has exactly one
\* time_spent line and exactly one pomosidian_log key.
C15_SingleOwnedFields ==
    \A f \in Files :
        HasEntries(content[f]) =>
            LET c == content[f]
            IN /\ BlockClose(c) > 0
               /\ ~SecondBlock(c)
               /\ Cardinality(FieldLines(c, TSKEY)) = 1
               /\ Cardinality(FieldLines(c, LOGKEY)) = 1

\* ------------------------------------------------------------- C16
IsEntryLine(line) == \E p \in 1..Len(line) : IsEntry(line[p])
\* the entry lines of a text, top to bottom
EntryLines(text) == SelectSeq(text, IsEntryLine)
\* the first pomosidian_log key of the head block (there is one)
LogKeyLine(text) ==
    CHOOSE l \in FieldLines(text, LOGKEY) : \A m \in FieldLines(text, LOGKEY) : l <= m
\* C16 (as claimed): a merge into a text whose head block has a
\* pomosidian_log key puts the new entry on the line directly under that
\* key and keeps the earlier entry lines below it, same text, same order.
C16_PrependOrdering ==
    [][\A i \in 1..Len(tasks) :
          (ReadDone(i) /\ FieldLines(content[tasks[i].file], LOGKEY) # {}) =>
              LET old == content[tasks[i].file]
                  new == tasks'[i].content
                  entry == logEntry(tasks[i].startTime, tasks[i].endTime)
              IN /\ FieldLines(new, LOGKEY) # {}
                 /\ new[LogKeyLine(new) + 1] = entry
                 /\ EntryLines(new) = <<entry>> \o EntryLines(old)]_vars

\* ------------------------------------------------------------- C17
\* the entry tokens written in a text
EntryToks(text) ==
    {text[l][p] : <<l, p>> \in {q \in (1..Len(text)) \X (1..3) :
                                   q[2] <= Len(text[q[1]]) /\ IsEntry(text[q[1]][q[2]])}}
\* C17 (as claimed): in every entry written to a note, the duration in
\* parentheses is the formatted difference, in whole seconds, of the end and
\* start timestamps printed in that same entry.
C17_EntryConsistency ==
    \A f \in Files : \A tok \in EntryToks(content[f]) :
        tok.d = formatTime(parseDateTime(tok.b) - parseDateTime(tok.a))

====
